---- MODULE Spec2Model ----
(***************************************************************************)
(* A model of list_license.py: the glTF/VRM container reader               *)
(* (VRMFile.load), the two metadata adapters (VRM0xMeta / VRM1Meta         *)
(* get_license_info), the derive pass (prepare_mapdata) and the apply pass *)
(* (sort_files_by_mapdata).                                                *)
(*                                                                         *)
(* Python strings are sequences of one-character strings, so that strip(), *)
(* lower(), split and join are computed and not assumed.  JSON values are  *)
(* tagged records; a Python dict is the sequence of its items in insertion *)
(* order (the order dict.items() iterates in).                             *)
(***************************************************************************)
EXTENDS Integers, Sequences, FiniteSets, TLC

\* ------------------------------------------------------------------ bounds

\* Longest "sorted" list of a mapdata.json the model enumerates.
MaxRules == 2

\* ------------------------------------------------------------- JSON values

JNull == [t |-> "null"]
JBool(b) == [t |-> "bool", b |-> b]
JStr(s) == [t |-> "str", s |-> s]
JList(l) == [t |-> "list", l |-> l]
JObj(m) == [t |-> "obj", m |-> m]

\* Python truthiness of a JSON value (bool(value)).
Truthy(value) ==
    CASE value.t = "null" -> FALSE
      [] value.t = "bool" -> value.b
      [] value.t = "str" -> value.s # <<>>
      [] value.t = "list" -> value.l # <<>>
      [] value.t = "obj" -> value.m # <<>>

\* dict helpers: `key in d`, `d[key]`, `d.get(key, default)`.
HasKey(d, key) == \E i \in 1..Len(d) : d[i].k = key
Lookup(d, key) == d[CHOOSE i \in 1..Len(d) : d[i].k = key].v
GetOr(d, key, default) == IF HasKey(d, key) THEN Lookup(d, key) ELSE default
Keys(d) == {d[i].k : i \in 1..Len(d)}

\* ------------------------------------------------------------ str methods

Whitespace == {" ", "\t", "\n"}

LowerChar(c) ==
    CASE c = "A" -> "a" [] c = "D" -> "d" [] c = "E" -> "e" [] c = "F" -> "f"
      [] c = "L" -> "l" [] c = "O" -> "o" [] c = "R" -> "r" [] c = "S" -> "s"
      [] c = "T" -> "t" [] c = "U" -> "u" [] c = "W" -> "w"
      [] OTHER -> c

\* str.lower()
Lower(s) == [i \in 1..Len(s) |-> LowerChar(s[i])]

\* str.strip(): drops the leading and the trailing run of whitespace.
RECURSIVE LStrip(_)
LStrip(s) ==
    IF s # <<>> /\ Head(s) \in Whitespace THEN LStrip(Tail(s)) ELSE s

RECURSIVE RStrip(_)
RStrip(s) ==
    IF s # <<>> /\ s[Len(s)] \in Whitespace
    THEN RStrip(SubSeq(s, 1, Len(s) - 1))
    ELSE s

Strip(s) == RStrip(LStrip(s))

\* Index of the first occurrence of character c in s, 0 when there is none.
Find(s, c) ==
    IF \E i \in 1..Len(s) : s[i] = c
    THEN CHOOSE i \in 1..Len(s) : s[i] = c /\ \A j \in 1..(i - 1) : s[j] # c
    ELSE 0

\* Index of the last occurrence of character c in s, 0 when there is none.
RFind(s, c) ==
    IF \E i \in 1..Len(s) : s[i] = c
    THEN CHOOSE i \in 1..Len(s) : s[i] = c /\ \A j \in (i + 1)..Len(s) : s[j] # c
    ELSE 0

\* s.split(c, 1)[0] and s.split(c, 1)[1] (the latter only when c occurs).
Before(s, c) == IF Find(s, c) = 0 THEN s ELSE SubSeq(s, 1, Find(s, c) - 1)
After(s, c) == SubSeq(s, Find(s, c) + 1, Len(s))

\* s.split(c): the list of the pieces between occurrences of c.
RECURSIVE Split(_, _)
Split(s, c) ==
    IF Find(s, c) = 0 THEN <<s>> ELSE <<Before(s, c)>> \o Split(After(s, c), c)

\* sep.join(parts)
RECURSIVE Join(_, _)
Join(sep, parts) ==
    IF parts = <<>> THEN <<>>
    ELSE IF Len(parts) = 1 THEN parts[1]
    ELSE parts[1] \o sep \o Join(sep, Tail(parts))

\* String literals of the program.
str_true == <<"t", "r", "u", "e">>
str_false == <<"f", "a", "l", "s", "e">>
str_sentinel == <<"-", "-">>
str_Allowed == <<"A", "l", "l", "o", "w", "e", "d">>
str_Not_allowed == <<"N", "o", "t", " ", "a", "l", "l", "o", "w", "e", "d">>
str_redistribution ==
    <<"r", "e", "d", "i", "s", "t", "r", "i", "b", "u", "t", "i", "o", "n">>
str_comma_space == <<",", " ">>
str_0x == <<"0", ".", "x">>
str_10 == <<"1", ".", "0">>

\* --------------------------------------------------------- utility functions

\* normalize_for_compare(value)
normalize_for_compare(value) ==
    IF value.t = "str"
    THEN LET v == Lower(Strip(value.s))
         IN  IF v = str_true THEN JBool(TRUE)
             ELSE IF v = str_false THEN JBool(FALSE)
             ELSE JStr(v)
    ELSE value

\* json.dumps(value, sort_keys=True, ensure_ascii=False) of null, booleans,
\* strings of plain characters (nothing to escape) and lists of them.
RECURSIVE dumps(_)
dumps(value) ==
    CASE value.t = "null" -> <<"n", "u", "l", "l">>
      [] value.t = "bool" -> IF value.b THEN str_true ELSE str_false
      [] value.t = "str" -> <<"\"">> \o value.s \o <<"\"">>
      [] value.t = "list" ->
            <<"[">> \o Join(str_comma_space,
                           [i \in 1..Len(value.l) |-> dumps(value.l[i])]) \o <<"]">>

\* canonicalize(value): a list or a dict is not hashable and is serialised.
canonicalize(value) ==
    IF value.t \in {"list", "obj"} THEN JStr(dumps(value)) ELSE value

LICENSE_KEYS ==
    {"allowedUserName", "violentUssageName", "sexualUssageName",
     "commercialUssageName", "creditNotation", "modification", "licenseName",
     "avatarPermission", "allowExcessivelyViolentUsage",
     "allowExcessivelySexualUsage", "commercialUsage", "allowRedistribution",
     "licenseUrl"}

\* ------------------------------------------------------------ VRMFile.load

\* A file on disk: its byte length, the four magic bytes, whether the JSON chunk
\* decodes as UTF-8 and parses as JSON, and the parsed object: its top-level
\* keys, the keys of "extensions" and the "meta" object under the marker.
glTF == "glTF"

\* The state of a VRMFile after load(): json_data is assigned before the schema
\* markers are looked at, so a container with valid JSON and no marker leaves
\* json_data set and vrm_version None.  Every exception is caught and printed.
VRMFile_load(f) ==
    LET none == [has_json |-> FALSE, top |-> {}, ext |-> {}, meta |-> <<>>,
                 vrm_version |-> "None", error |-> "none"]
        parsed == [none EXCEPT !.has_json = TRUE, !.top = f.top, !.ext = f.ext,
                               !.meta = f.meta]
    IN  IF f.size < 12 THEN [none EXCEPT !.error = "struct.error"]
        ELSE IF f.magic # glTF THEN [none EXCEPT !.error = "Not a valid VRM file"]
        ELSE IF f.size < 16 THEN [none EXCEPT !.error = "struct.error"]
        ELSE IF ~f.utf8 THEN [none EXCEPT !.error = "UnicodeDecodeError"]
        ELSE IF ~f.json THEN [none EXCEPT !.error = "JSONDecodeError"]
        ELSE IF "extensions" \in f.top
             THEN IF "VRM" \in f.ext THEN [parsed EXCEPT !.vrm_version = "0.x"]
                  ELSE IF "VRMC_vrm" \in f.ext
                       THEN [parsed EXCEPT !.vrm_version = "1.0"]
                  ELSE [parsed EXCEPT !.error = "VRM metadata not found"]
             ELSE [parsed EXCEPT !.error = "VRM metadata not found"]

\* `vrm.json_data` used as a condition: not None and not an empty object.
JsonTruthy(vrm) == vrm.has_json /\ vrm.top # {}

\* ------------------------------------------------------- metadata adapters

CSV_KEYS ==
    <<"file_name", "vrm_version", "model_name", "author", "contact",
      "reference_url", "commercial_usage", "redistribution", "credit_notation",
      "modification", "avatar_permission", "sexual_expression",
      "violence_expression", "license", "other_permission_url",
      "other_license_url">>

\* os.path.basename(path)
basename(path) == SubSeq(path, RFind(path, "/") + 1, Len(path))

\* urllib.parse.urlparse(url).query for a str without brackets, percent signs or
\* control characters: the fragment is cut at the first "#", then the query is
\* what follows the first "?".
urlparse_query(url) ==
    LET nofrag == Before(url, "#")
    IN  IF Find(nofrag, "?") = 0 THEN <<>> ELSE After(nofrag, "?")

\* urllib.parse.parse_qs(query).get("redistribution", ["--"])[0]: the pairs are
\* split at "&", a pair without "=" or with an empty value is dropped
\* (keep_blank_values is False), and the first value kept for the name is taken.
qs_redistribution(query) ==
    LET pairs == Split(query, "&")
        Kept(p) == /\ Find(p, "=") # 0
                   /\ Before(p, "=") = str_redistribution
                   /\ After(p, "=") # <<>>
        vals == SelectSeq(pairs, Kept)
    IN  IF vals = <<>> THEN str_sentinel ELSE After(vals[1], "=")

\* VRM0xMeta.get_license_info: [crashed, info].  urlparse raises AttributeError
\* on a truthy value that is not a str, and nothing catches it.
VRM0xMeta_get_license_info(meta, file_name) ==
    LET dash == JStr(str_sentinel)
        other_permission_url == GetOr(meta, "otherPermissionUrl", JStr(<<>>))
        raises == Truthy(other_permission_url) /\ other_permission_url.t # "str"
        redistribution ==
            IF Truthy(other_permission_url) /\ ~raises
            THEN JStr(qs_redistribution(urlparse_query(other_permission_url.s)))
            ELSE dash
    IN  [crashed |-> raises,
         info |->
           [file_name |-> JStr(file_name),
            vrm_version |-> JStr(str_0x),
            model_name |-> GetOr(meta, "title", dash),
            author |-> GetOr(meta, "author", dash),
            contact |-> GetOr(meta, "contactInformation", dash),
            reference_url |-> GetOr(meta, "reference", dash),
            commercial_usage |-> GetOr(meta, "commercialUssageName", dash),
            redistribution |-> redistribution,
            credit_notation |-> GetOr(meta, "creditNotation", dash),
            modification |-> GetOr(meta, "modification", dash),
            avatar_permission |-> GetOr(meta, "allowedUserName", dash),
            sexual_expression |-> GetOr(meta, "sexualUssageName", dash),
            violence_expression |-> GetOr(meta, "violentUssageName", dash),
            license |-> GetOr(meta, "licenseName", dash),
            other_permission_url |-> GetOr(meta, "otherPermissionUrl", dash),
            other_license_url |-> GetOr(meta, "otherLicenseUrl", dash)]]

\* The three-way mapping of VRM1Meta.get_license_info for one boolean-sourced
\* key: meta.get(key, None) is None -> "--", else "Allowed" if truthy else
\* "Not allowed".
AllowedLabelTruthy(meta, key) ==
    IF Truthy(GetOr(meta, key, JNull)) THEN JStr(str_Allowed)
    ELSE JStr(str_sentinel)

AllowedLabel(meta, key) ==
    LET v == GetOr(meta, key, JNull)
    IN  IF v = JNull THEN JStr(str_sentinel)
        ELSE IF Truthy(v) THEN JStr(str_Allowed) ELSE JStr(str_Not_allowed)

\* ", ".join(authors) succeeds for a list of str and for a str (joined character
\* by character); it raises TypeError for anything else.
JoinableAuthors(authors) ==
    \/ authors.t = "str"
    \/ authors.t = "list" /\ \A i \in 1..Len(authors.l) : authors.l[i].t = "str"

JoinAuthors(authors) ==
    IF authors.t = "str"
    THEN Join(str_comma_space, [i \in 1..Len(authors.s) |-> <<authors.s[i]>>])
    ELSE Join(str_comma_space, [i \in 1..Len(authors.l) |-> authors.l[i].s])

\* VRM1Meta.get_license_info: [crashed, info].
VRM1Meta_get_license_info(meta, file_name) ==
    LET dash == JStr(str_sentinel)
        authors == GetOr(meta, "authors", JList(<<dash>>))
    IN  [crashed |-> ~JoinableAuthors(authors),
         info |->
           [file_name |-> JStr(file_name),
            vrm_version |-> JStr(str_10),
            model_name |-> GetOr(meta, "name", dash),
            author |-> IF JoinableAuthors(authors) THEN JStr(JoinAuthors(authors))
                       ELSE dash,
            contact |-> dash,
            reference_url |-> dash,
            commercial_usage |-> GetOr(meta, "commercialUsage", dash),
            redistribution |-> AllowedLabel(meta, "allowRedistribution"),
            credit_notation |-> GetOr(meta, "creditNotation", dash),
            modification |-> GetOr(meta, "modification", dash),
            avatar_permission |-> GetOr(meta, "avatarPermission", dash),
            sexual_expression |-> AllowedLabel(meta, "allowExcessivelySexualUsage"),
            violence_expression |-> AllowedLabel(meta, "allowExcessivelyViolentUsage"),
            license |-> GetOr(meta, "licenseUrl", dash),
            other_permission_url |-> dash,
            other_license_url |-> dash]]

\* VRMParser.parse: "none" for a file that is neither 0.x nor 1.0, "crash" when
\* the adapter raises (nothing catches it), else the unified record.
VRMParser_parse(vrm, path) ==
    LET r == IF vrm.vrm_version = "0.x"
             THEN VRM0xMeta_get_license_info(vrm.meta, basename(path))
             ELSE VRM1Meta_get_license_info(vrm.meta, basename(path))
    IN  IF vrm.vrm_version \notin {"0.x", "1.0"} THEN [kind |-> "none", info |-> <<>>]
        ELSE IF r.crashed THEN [kind |-> "crash", info |-> <<>>]
        ELSE [kind |-> "info", info |-> <<r.info>>]

\* ------------------------------------------------------------------- state

VARIABLES
    mode,              \* which branch of main runs: "sort", "prepare" or "info"
    pc,                \* "start", "loop", "done" or "crashed" (uncaught exception)
    mapdata,           \* the persisted mapdata.json, as json.load returns it
    donotuse_mapping,  \* <<>> (None) or <<mapping>>
    normal_mappings,   \* the list built at lines 325-331
    vrm_version,       \* vrm.vrm_version of the file of the last iteration
    loaded,            \* some file has been loaded
    meta,              \* the local `meta`, which survives from one iteration to the
                       \* next (in the report modes: the adapter's self.meta)
    meta_bound,        \* whether `meta` has been assigned yet
    moved,             \* the local `moved`
    moves,             \* the shutil.move calls of the last iteration, in order
    any_moved,         \* some file has been moved
    evals,             \* per mapping visited in the last iteration: what it evaluated to
    cmps,              \* the comparisons (lines 358-368) made in the last iteration
    value_dict,        \* prepare_mapdata's value_dict, as a set of (key, value) pairs
    unsort_target,     \* what prepare_mapdata writes under mapdata.unsort.target
    license_info       \* <<>> or <<the record VRMParser.parse returned>>

vars ==
    <<mode, pc, mapdata, donotuse_mapping, normal_mappings, vrm_version, loaded, meta,
      meta_bound, moved, moves, any_moved, evals, cmps, value_dict, unsort_target,
      license_info>>

\* ------------------------------------------------- sort_files_by_mapdata

DoNotUse == "DoNotUse"

\* mapdata.get("mapdata", {}).get("sorted", [])
sorted_mappings(md) ==
    IF md.has_mapdata /\ md.has_sorted THEN md.sorted ELSE <<>>

\* mapping.get("directory") == "DoNotUse" and not target_dict
IsDoNotUse(mapping) == mapping.directory = DoNotUse /\ ~Truthy(mapping.target)

\* Lines 324-331: every qualifying entry overwrites donotuse_mapping, so the last
\* one stays; the others keep their order in normal_mappings.
SeparateDoNotUse(mappings) ==
    LET dnu == SelectSeq(mappings, IsDoNotUse)
        IsNormal(mapping) == ~IsDoNotUse(mapping)
    IN  [donotuse_mapping |-> IF dnu = <<>> THEN <<>> ELSE <<dnu[Len(dnu)]>>,
         normal_mappings |-> SelectSeq(mappings, IsNormal)]

\* Line 336, negated: the file goes on to classification.
RecognizedJsonOnly(vrm) == JsonTruthy(vrm)

Recognized(vrm) == JsonTruthy(vrm) /\ vrm.vrm_version \in {"0.x", "1.0"}

\* Lines 355-357: a present key whose file value is None fails the mapping.
NullIgnored(file_value) == FALSE

NullFails(file_value) == file_value = JNull

\* Lines 358-368: the comparison of one file value with one mapping value.
CondSatisfiedAsymmetric(file_value, mapping_value) ==
    LET norm_file_val == normalize_for_compare(file_value)
    IN  IF mapping_value.t = "list"
        THEN \E i \in 1..Len(mapping_value.l) : norm_file_val = mapping_value.l[i]
        ELSE norm_file_val = mapping_value

CondSatisfied(file_value, mapping_value) ==
    LET norm_file_val == normalize_for_compare(file_value)
    IN  IF mapping_value.t = "list"
        THEN LET norm_mapping_vals ==
                     [i \in 1..Len(mapping_value.l) |->
                          normalize_for_compare(mapping_value.l[i])]
             IN  \E i \in 1..Len(norm_mapping_vals) :
                     norm_file_val = norm_mapping_vals[i]
        ELSE norm_file_val = normalize_for_compare(mapping_value)

\* Lines 349-368: the loop over target_dict.items(), with its breaks.  Reading
\* `meta` while it is unbound raises UnboundLocalError.
RECURSIVE EvalTarget(_, _, _, _, _)
EvalTarget(items, m, bound, evaluated_keys, log) ==
    IF items = <<>>
    THEN [crash |-> FALSE, evaluated_keys |-> evaluated_keys, all_match |-> TRUE,
          cmps |-> log]
    ELSE IF ~bound
    THEN [crash |-> TRUE, evaluated_keys |-> evaluated_keys, all_match |-> FALSE,
          cmps |-> log]
    ELSE LET key == Head(items).k
             mapping_value == Head(items).v
         IN  IF ~HasKey(m, key)
             THEN EvalTarget(Tail(items), m, bound, evaluated_keys, log)
             ELSE LET file_value == Lookup(m, key)
                      ok == CondSatisfied(file_value, mapping_value)
                      entry == [f |-> file_value, m |-> mapping_value, ok |-> ok]
                  IN  IF NullFails(file_value)
                      THEN [crash |-> FALSE, evaluated_keys |-> evaluated_keys + 1,
                            all_match |-> FALSE, cmps |-> log]
                      ELSE IF ~ok
                      THEN [crash |-> FALSE, evaluated_keys |-> evaluated_keys + 1,
                            all_match |-> FALSE, cmps |-> log \cup {entry}]
                      ELSE EvalTarget(Tail(items), m, bound, evaluated_keys + 1,
                                      log \cup {entry})

\* Lines 369-372: a mapping none of whose keys is in the file's metadata fails.
AllMatchNoGuard(r) == r.all_match

AllMatch(r) == r.all_match /\ r.evaluated_keys # 0

\* Lines 345-382: the loop over normal_mappings for one file.  A target that is
\* truthy and not a dict raises AttributeError at .items(); a mapping that
\* matches and has no directory moves nothing and the loop goes on.
RECURSIVE EvalMappings(_, _, _, _, _, _)
EvalMappings(mappings, i, m, bound, ev, log) ==
    IF i > Len(mappings)
    THEN [status |-> "nomatch", moves |-> <<>>, evals |-> ev, cmps |-> log]
    ELSE LET mapping == mappings[i]
             target_dict == mapping.target
         IN  IF ~Truthy(target_dict)
             THEN EvalMappings(mappings, i + 1, m, bound,
                               Append(ev, [idx |-> i, skipped |-> TRUE,
                                           evaluated_keys |-> 0,
                                           all_match |-> FALSE]), log)
             ELSE IF target_dict.t # "obj"
             THEN [status |-> "crash", moves |-> <<>>, evals |-> ev, cmps |-> log]
             ELSE LET r == EvalTarget(target_dict.m, m, bound, 0, log)
                      e == [idx |-> i, skipped |-> FALSE,
                            evaluated_keys |-> r.evaluated_keys,
                            all_match |-> AllMatch(r)]
                  IN  IF r.crash
                      THEN [status |-> "crash", moves |-> <<>>, evals |-> ev,
                            cmps |-> r.cmps]
                      ELSE IF AllMatch(r) /\ mapping.directory # ""
                      THEN [status |-> "moved",
                            moves |-> <<[via |-> "rule", idx |-> i,
                                         dir |-> mapping.directory]>>,
                            evals |-> Append(ev, e), cmps |-> r.cmps]
                      ELSE EvalMappings(mappings, i + 1, m, bound, Append(ev, e),
                                        r.cmps)

\* Lines 383-392: the DoNotUse move, made when `moved` is still False.
FallbackMoves(is_moved, dnu) ==
    IF ~is_moved /\ dnu # <<>> /\ dnu[1].directory # ""
    THEN <<[via |-> "fallback", idx |-> 0, dir |-> dnu[1].directory]>>
    ELSE <<>>

\* ------------------------------------------------------------------ inputs

str_Allow == <<"A", "l", "l", "o", "w">>
str_Allow_padded == <<" ", "A", "l", "l", "o", "w", " ">>
str_ALLOW_padded == <<" ", "A", "L", "L", "O", "W">>
str_allow == <<"a", "l", "l", "o", "w">>
str_Disallow == <<"D", "i", "s", "a", "l", "l", "o", "w">>
str_FALSE_padded == <<"F", "A", "L", "S", "E", "\t">>
str_url_redistribution ==
    <<"h", "?", "a", "=", "1", "&">> \o str_redistribution \o <<"=">> \o str_Allow
      \o <<"#", "x">>
str_url_blank == <<"h", "?">> \o str_redistribution \o <<"=">>
str_url_plain == <<"h", "/", "p">>
str_path == <<"d", "/", "a", ".", "v", "r", "m">>

\* A dict item, or nothing when the key is left out.
Absent == [t |-> "absent"]
Item(key, value) == IF value = Absent THEN <<>> ELSE <<[k |-> key, v |-> value]>>

File(size, magic, utf8, json, top, ext, m) ==
    [path |-> str_path, size |-> size, magic |-> magic, utf8 |-> utf8,
     json |-> json, top |-> top, ext |-> ext, meta |-> m]

\* Containers on which load() or the schema detection fails: too short for the
\* header, wrong magic, too short for the chunk length, chunk not UTF-8, chunk
\* not JSON, the empty JSON object, no "extensions", no marker in "extensions".
FailingFiles ==
    {File(8, glTF, TRUE, TRUE, {"asset"}, {}, <<>>),
     File(64, "XXXX", TRUE, TRUE, {"asset", "extensions"}, {"VRM"}, <<>>),
     File(14, glTF, TRUE, TRUE, {"asset", "extensions"}, {"VRM"}, <<>>),
     File(64, glTF, FALSE, FALSE, {}, {}, <<>>),
     File(64, glTF, TRUE, FALSE, {}, {}, <<>>),
     File(64, glTF, TRUE, TRUE, {}, {}, <<>>),
     File(64, glTF, TRUE, TRUE, {"asset"}, {}, <<>>),
     File(64, glTF, TRUE, TRUE, {"asset", "extensions"}, {"other"}, <<>>)}

VrmFile(ext, m) == File(64, glTF, TRUE, TRUE, {"asset", "extensions"}, ext, m)

\* The metadata of the files of the apply pass: two keys, each left out, null or
\* one of two spellings.
SortMetas ==
    {Item("commercialUsage", cu) \o Item("allowRedistribution", ar) :
        cu \in {Absent, JNull, JStr(str_Allow_padded), JStr(str_Disallow)},
        ar \in {Absent, JNull, JBool(TRUE), JStr(str_FALSE_padded)}}

SortFiles ==
    FailingFiles
      \cup {VrmFile({"VRMC_vrm"}, m) : m \in SortMetas}
      \cup {VrmFile({"VRM"}, m) :
              m \in {<<>>, Item("commercialUsage", JStr(str_Allow_padded))}}
      \cup {VrmFile({"VRM", "VRMC_vrm"}, Item("commercialUsage", JStr(str_Disallow)))}

\* The entries a hand-edited "sorted" list is drawn from: a one-key rule, a
\* two-key rule with list conditions, a rule without a directory, the fallback,
\* a DoNotUse entry with conditions, a rule without conditions, and an entry
\* whose target is a list.
Mapping(directory, target) == [directory |-> directory, target |-> target]

RulePool ==
    {Mapping("folder-1", JObj(Item("commercialUsage", JStr(str_allow)))),
     Mapping("folder-2",
             JObj(Item("commercialUsage",
                       JList(<<JStr(str_ALLOW_padded), JStr(str_Disallow)>>))
                    \o Item("allowRedistribution",
                            JList(<<JStr(str_true), JNull>>)))),
     Mapping("", JObj(Item("allowRedistribution", JBool(FALSE)))),
     Mapping(DoNotUse, JObj(<<>>)),
     Mapping(DoNotUse, JObj(Item("allowRedistribution", JBool(TRUE)))),
     Mapping("folder-1", JObj(<<>>)),
     Mapping("folder-1", JList(<<JStr(str_allow)>>))}

RuleLists == UNION {[1..n -> RulePool] : n \in 0..MaxRules}

MapdataFiles ==
    {[has_mapdata |-> TRUE, has_sorted |-> TRUE, sorted |-> s] : s \in RuleLists}
      \cup {[has_mapdata |-> FALSE, has_sorted |-> FALSE, sorted |-> <<>>],
            [has_mapdata |-> TRUE, has_sorted |-> FALSE, sorted |-> <<>>]}

NoMapdata == [has_mapdata |-> FALSE, has_sorted |-> FALSE, sorted |-> <<>>]

PrepareFiles ==
    FailingFiles
      \cup {VrmFile({"VRMC_vrm"}, m) :
              m \in {<<>>,
                     Item("commercialUsage", JStr(str_Allow)),
                     Item("commercialUsage", JStr(str_Disallow))
                         \o Item("allowRedistribution", JBool(TRUE)),
                     Item("name", JStr(str_Allow))
                         \o Item("commercialUsage", JStr(<<>>))
                         \o Item("allowRedistribution", JNull),
                     Item("licenseUrl", JList(<<JStr(str_Allow), JBool(TRUE)>>))}}
      \cup {VrmFile({"VRM"}, Item("commercialUssageName", JStr(str_Allow)))}

Keys0x ==
    {"title", "author", "contactInformation", "reference", "commercialUssageName",
     "otherPermissionUrl", "creditNotation", "modification", "allowedUserName",
     "sexualUssageName", "violentUssageName", "licenseName", "otherLicenseUrl"}

Keys10 ==
    {"name", "authors", "commercialUsage", "allowRedistribution", "creditNotation",
     "modification", "avatarPermission", "allowExcessivelySexualUsage",
     "allowExcessivelyViolentUsage", "licenseUrl"}

TriStateKeys ==
    <<"allowRedistribution", "allowExcessivelySexualUsage",
      "allowExcessivelyViolentUsage">>

TriStateFields == <<"redistribution", "sexual_expression", "violence_expression">>

\* The values a meta key of a report-mode file takes: null and a string for every
\* key, and per key the values its adapter code distinguishes.
InfoValues(key) ==
    {JNull, JStr(str_Allow)}
      \cup (IF key = "otherPermissionUrl"
            THEN {JStr(<<>>), JStr(str_url_redistribution), JStr(str_url_blank),
                  JStr(str_url_plain), JBool(TRUE)}
            ELSE IF key = "authors"
            THEN {JList(<<JStr(str_Allow), JStr(str_Disallow)>>),
                  JList(<<JBool(TRUE)>>), JList(<<>>)}
            ELSE IF \E i \in 1..3 : TriStateKeys[i] = key
            THEN {JStr(<<>>), JList(<<>>)}
            ELSE {})

TriStateValues == {Absent, JBool(TRUE), JBool(FALSE)}

InfoFiles ==
    FailingFiles
      \cup {VrmFile({"VRM"}, Item(key, v)) : key \in Keys0x, v \in {Absent, JNull}}
      \cup UNION {{VrmFile({"VRM"}, Item(key, v)) : v \in InfoValues(key)} :
                    key \in {"title", "otherPermissionUrl"}}
      \cup UNION {{VrmFile({"VRMC_vrm"}, Item(key, v)) : v \in InfoValues(key)} :
                    key \in Keys10}
      \cup {VrmFile({"VRMC_vrm"},
                    Item(TriStateKeys[1], a) \o Item(TriStateKeys[2], b)
                        \o Item(TriStateKeys[3], c)) :
              a \in TriStateValues, b \in TriStateValues, c \in TriStateValues}

\* ------------------------------------------------------------------ actions

Init ==
    /\ mode \in {"sort", "prepare", "info"}
    /\ pc = "start"
    /\ mapdata \in (IF mode = "sort" THEN MapdataFiles ELSE {NoMapdata})
    /\ donotuse_mapping = <<>>
    /\ normal_mappings = <<>>
    /\ vrm_version = "None"
    /\ loaded = FALSE
    /\ meta = <<>>
    /\ meta_bound = FALSE
    /\ moved = FALSE
    /\ moves = <<>>
    /\ any_moved = FALSE
    /\ evals = <<>>
    /\ cmps = {}
    /\ value_dict = {}
    /\ unsort_target = {}
    /\ license_info = <<>>

\* sort_files_by_mapdata, lines 319-331: read mapdata.json and split the entries.
SortStart ==
    /\ mode = "sort" /\ pc = "start"
    /\ LET sep == SeparateDoNotUse(sorted_mappings(mapdata))
       IN  /\ donotuse_mapping' = sep.donotuse_mapping
           /\ normal_mappings' = sep.normal_mappings
    /\ pc' = "loop"
    /\ UNCHANGED <<mode, mapdata, vrm_version, loaded, meta, meta_bound, moved, moves,
                   any_moved, evals, cmps, value_dict, unsort_target, license_info>>

\* sort_files_by_mapdata, lines 333-392: one iteration of the loop over file_list.
\* (The quantifiers over singletons bind vrm and r to values computed once.)
SortFile(f) ==
    /\ mode = "sort" /\ pc = "loop"
    /\ loaded' = TRUE
    /\ \E vrm \in {VRMFile_load(f)} :
         LET assigned == vrm.vrm_version \in {"0.x", "1.0"}
             m == IF assigned THEN vrm.meta ELSE meta
             bound == assigned \/ meta_bound
         IN  /\ vrm_version' = vrm.vrm_version
             /\ IF ~Recognized(vrm)
                THEN /\ moves' = <<>> /\ evals' = <<>> /\ cmps' = {}
                     /\ UNCHANGED <<pc, meta, meta_bound, moved, any_moved>>
                ELSE \E r \in {EvalMappings(normal_mappings, 1, m, bound, <<>>, {})} :
                       LET is_moved == r.status = "moved"
                           all_moves ==
                               r.moves \o FallbackMoves(is_moved, donotuse_mapping)
                       IN  /\ meta' = m /\ meta_bound' = bound
                           /\ evals' = r.evals /\ cmps' = r.cmps
                           /\ IF r.status = "crash"
                              THEN /\ pc' = "crashed" /\ moved' = FALSE
                                   /\ moves' = <<>>
                                   /\ UNCHANGED any_moved
                              ELSE /\ pc' = pc /\ moved' = is_moved
                                   /\ moves' = all_moves
                                   /\ any_moved' = (any_moved \/ all_moves # <<>>)
    /\ UNCHANGED <<mode, mapdata, donotuse_mapping, normal_mappings, value_dict,
                   unsort_target, license_info>>

\* sort_files_by_mapdata, line 393: file_list is exhausted.
SortEnd ==
    /\ mode = "sort" /\ pc = "loop"
    /\ pc' = "done"
    /\ UNCHANGED <<mode, mapdata, donotuse_mapping, normal_mappings, vrm_version, loaded,
                   meta, meta_bound, moved, moves, any_moved, evals, cmps, value_dict,
                   unsort_target, license_info>>

\* --------------------------------------------------------- prepare_mapdata

\* Lines 273-282: what one meta object adds to value_dict.
Contribution(m) ==
    {[k |-> m[i].k, v |-> canonicalize(m[i].v)] :
        i \in {j \in 1..Len(m) : /\ m[j].k \in LICENSE_KEYS
                                 /\ m[j].v # JNull
                                 /\ m[j].v # JStr(<<>>)}}

\* Lines 284-290: a key with one value keeps the value, the others a list (in the
\* set's iteration order, which is not modelled: the list is kept as a set).
ToUnsortTarget(vd) ==
    {[k |-> key,
      single |-> Cardinality({p \in vd : p.k = key}) = 1,
      vals |-> {p.v : p \in {q \in vd : q.k = key}}] : key \in {p.k : p \in vd}}

\* prepare_mapdata, line 264.
PrepareStart ==
    /\ mode = "prepare" /\ pc = "start"
    /\ value_dict' = {}
    /\ pc' = "loop"
    /\ UNCHANGED <<mode, mapdata, donotuse_mapping, normal_mappings, vrm_version, loaded,
                   meta, meta_bound, moved, moves, any_moved, evals, cmps,
                   unsort_target, license_info>>

\* prepare_mapdata, lines 265-282: one iteration of the loop over file_list.  With
\* json_data truthy and vrm_version None neither branch assigns `meta`: line 273
\* reads the previous iteration's value, or raises UnboundLocalError.
PrepareFile(f) ==
    /\ mode = "prepare" /\ pc = "loop"
    /\ loaded' = TRUE
    /\ \E vrm \in {VRMFile_load(f)} :
         LET assigned == vrm.vrm_version \in {"0.x", "1.0"}
             m == IF assigned THEN vrm.meta ELSE meta
             bound == assigned \/ meta_bound
         IN  /\ vrm_version' = vrm.vrm_version
             /\ IF ~JsonTruthy(vrm)
                THEN UNCHANGED <<pc, meta, meta_bound, value_dict>>
                ELSE IF ~bound
                THEN /\ pc' = "crashed"
                     /\ UNCHANGED <<meta, meta_bound, value_dict>>
                ELSE /\ meta' = m /\ meta_bound' = TRUE
                     /\ value_dict' = value_dict \cup Contribution(m)
                     /\ pc' = pc
    /\ UNCHANGED <<mode, mapdata, donotuse_mapping, normal_mappings, moved, moves,
                   any_moved, evals, cmps, unsort_target, license_info>>

\* prepare_mapdata, lines 283-315: build unsort_target and write mapdata.json.
PrepareWrite ==
    /\ mode = "prepare" /\ pc = "loop"
    /\ unsort_target' = ToUnsortTarget(value_dict)
    /\ pc' = "done"
    /\ UNCHANGED <<mode, mapdata, donotuse_mapping, normal_mappings, vrm_version, loaded,
                   meta, meta_bound, moved, moves, any_moved, evals, cmps, value_dict,
                   license_info>>

\* ------------------------------------------------- main, the report modes

\* main, lines 435-437 (or 448): the report begins.
InfoStart ==
    /\ mode = "info" /\ pc = "start"
    /\ pc' = "loop"
    /\ UNCHANGED <<mode, mapdata, donotuse_mapping, normal_mappings, vrm_version, loaded,
                   meta, meta_bound, moved, moves, any_moved, evals, cmps, value_dict,
                   unsort_target, license_info>>

\* main, lines 438-444 and 449-457: load one file and parse it.  An exception in
\* the adapter is not caught.
InfoFile(f) ==
    /\ mode = "info" /\ pc = "loop"
    /\ loaded' = TRUE
    /\ \E vrm \in {VRMFile_load(f)} :
         \E r \in {VRMParser_parse(vrm, f.path)} :
            /\ vrm_version' = vrm.vrm_version
            /\ license_info' = r.info
            /\ meta' = IF r.kind = "none" THEN <<>> ELSE vrm.meta
            /\ pc' = IF r.kind = "crash" THEN "crashed" ELSE pc
    /\ UNCHANGED <<mode, mapdata, donotuse_mapping, normal_mappings, meta_bound,
                   moved, moves, any_moved, evals, cmps, value_dict, unsort_target>>

\* main, line 445: file_list is exhausted.
InfoEnd ==
    /\ mode = "info" /\ pc = "loop"
    /\ pc' = "done"
    /\ UNCHANGED <<mode, mapdata, donotuse_mapping, normal_mappings, vrm_version, loaded,
                   meta, meta_bound, moved, moves, any_moved, evals, cmps, value_dict,
                   unsort_target, license_info>>

Next ==
    \/ SortStart
    \/ \E f \in SortFiles : SortFile(f)
    \/ SortEnd
    \/ PrepareStart
    \/ \E f \in PrepareFiles : PrepareFile(f)
    \/ PrepareWrite
    \/ InfoStart
    \/ \E f \in InfoFiles : InfoFile(f)
    \/ InfoEnd

Spec == Init /\ [][Next]_vars

\* ------------------------------------------------------------------ claims

\* The last iteration of the apply pass classified a recognized file.
Classified ==
    mode = "sort" /\ loaded /\ vrm_version \in {"0.x", "1.0"} /\ pc # "crashed"

\* The condition keys of a mapping (none when its target is not a mapping).
TargetKeys(mapping) ==
    IF mapping.target.t = "obj" THEN Keys(mapping.target.m) ELSE {}

\* The two normalized values are equal (for a list: for at least one member).
NormEq(file_value, mapping_value) ==
    IF mapping_value.t = "list"
    THEN \E i \in 1..Len(mapping_value.l) :
            normalize_for_compare(file_value)
                = normalize_for_compare(mapping_value.l[i])
    ELSE normalize_for_compare(file_value) = normalize_for_compare(mapping_value)

\* Every condition key that the metadata carries has a non-null value that
\* satisfies its condition.
PresentKeysSatisfied(m, mapping) ==
    \A k \in TargetKeys(mapping) \cap Keys(m) :
        /\ Lookup(m, k) # JNull
        /\ NormEq(Lookup(m, k), Lookup(mapping.target.m, k))

\* A conditional rule fully matches: at least one of its keys is present, and
\* every present key is satisfied.
FullyMatches(m, mapping) ==
    /\ TargetKeys(mapping) \cap Keys(m) # {}
    /\ PresentKeysSatisfied(m, mapping)

\* The first conditional rule that fully matches, 0 when there is none.
FirstMatch(m, mappings) ==
    IF \E i \in 1..Len(mappings) : FullyMatches(m, mappings[i])
    THEN CHOOSE i \in 1..Len(mappings) :
            /\ FullyMatches(m, mappings[i])
            /\ \A j \in 1..(i - 1) : ~FullyMatches(m, mappings[j])
    ELSE 0

\* C1: in the apply pass, when some conditional rule fully matches a recognized
\* file, the conditional rules move the file exactly once, by the first such rule
\* in stored order and to that rule's destination (nothing when that rule names
\* no destination); evaluation stops there and no later rule is chosen.
C1_FirstMatchWins ==
    Classified =>
        LET first == FirstMatch(meta, normal_mappings)
            by_rule == {n \in 1..Len(moves) : moves[n].via = "rule"}
        IN  first # 0 =>
                /\ \A n \in by_rule :
                      /\ moves[n].idx = first
                      /\ moves[n].dir = normal_mappings[first].directory
                /\ Cardinality(by_rule)
                      = (IF normal_mappings[first].directory = "" THEN 0 ELSE 1)

\* C2: a conditional rule none of whose condition keys is in the file's metadata
\* (a rule without conditions included) never matches the file, and when that is
\* so of every rule a configured fallback is applied.
C2_NoPresentKeyNeverMatches ==
    (mode = "sort" /\ loaded /\ vrm_version \in {"0.x", "1.0"}) =>
        /\ \A n \in 1..Len(evals) :
              TargetKeys(normal_mappings[evals[n].idx]) \cap Keys(meta) = {}
                  => ~evals[n].all_match
        /\ \A n \in 1..Len(moves) :
              moves[n].via = "rule"
                  => TargetKeys(normal_mappings[moves[n].idx]) \cap Keys(meta) # {}
        /\ ( /\ donotuse_mapping # <<>>
             /\ \A i \in 1..Len(normal_mappings) :
                   /\ normal_mappings[i].target.t = "obj"
                   /\ TargetKeys(normal_mappings[i]) \cap Keys(meta) = {} )
              => moves = <<[via |-> "fallback", idx |-> 0, dir |-> DoNotUse]>>

\* C2's case: a rule with conditions, none of whose keys the file carries, was
\* evaluated and the file went to the fallback.
C2_Witness ==
    /\ mode = "sort" /\ loaded /\ vrm_version \in {"0.x", "1.0"}
    /\ \E n \in 1..Len(evals) : ~evals[n].skipped /\ evals[n].evaluated_keys = 0
    /\ meta # <<>>
    /\ moves # <<>> /\ moves[1].via = "fallback"

\* C3: a recognized file goes to the fallback if and only if no conditional rule
\* fully matches it and a fallback is configured; with no match and no fallback
\* it is not moved.
C3_FallbackIffNoMatch ==
    Classified =>
        LET none == \A i \in 1..Len(normal_mappings) :
                        ~FullyMatches(meta, normal_mappings[i])
        IN  /\ (\E n \in 1..Len(moves) : moves[n].via = "fallback")
                  <=> (none /\ donotuse_mapping # <<>>)
            /\ (none /\ donotuse_mapping = <<>>) => moves = <<>>

\* C4: in the apply pass an iteration on a file whose load or schema detection
\* fails moves nothing, does not end the pass, and leaves everything the later
\* iterations read (the rules and the loop's locals) as it was, so the remaining
\* files are classified as if the file were not in the batch.
C4_FailureIsNonFatal ==
    [][\A f \in FailingFiles :
          SortFile(f) =>
              /\ pc' = "loop"
              /\ moves' = <<>>
              /\ UNCHANGED <<meta, meta_bound, moved, any_moved, mapdata,
                             donotuse_mapping, normal_mappings>>]_vars

\* C4's case: a failing file has just been passed over, after an earlier file of
\* the batch was moved, and the loop is still running.
C4_Witness ==
    /\ mode = "sort" /\ pc = "loop" /\ loaded
    /\ vrm_version = "None" /\ moves = <<>>
    /\ any_moved /\ meta_bound

\* C5: in derive mode an iteration on a file whose load fails or whose schema is
\* Unknown does not abort the derivation and adds nothing to the pool, wherever
\* the file stands in the list.
C5_UnusableFileContributesNothing ==
    [][\A f \in FailingFiles :
          PrepareFile(f) => (pc' = "loop" /\ value_dict' = value_dict)]_vars

\* A persisted RuleSet that misses a section or has an entry whose conditions
\* are not a mapping.
InvalidRuleSet(md) ==
    \/ ~md.has_mapdata
    \/ ~md.has_sorted
    \/ \E i \in 1..Len(md.sorted) : md.sorted[i].target.t # "obj"

\* C6: with a structurally invalid RuleSet the apply pass fails before any file
\* is loaded or moved, and never runs to completion.
C6_InvalidRuleSetFailsFirst ==
    (mode = "sort" /\ InvalidRuleSet(mapdata)) =>
        (~loaded /\ ~any_moved /\ pc # "done")

\* C7: for a recognized container the unified record is produced and none of its
\* 16 fields is null: an absent or null source value gives the sentinel.
C7_NoNullField ==
    (mode = "info" /\ loaded /\ vrm_version \in {"0.x", "1.0"}) =>
        /\ license_info # <<>>
        /\ \A i \in 1..Len(CSV_KEYS) : license_info[1][CSV_KEYS[i]] # JNull

\* C8: in the current-schema adapter each boolean-sourced field is "--" when its
\* source key is absent, "Allowed" when it is true and "Not allowed" when it is
\* false, and these three outputs are pairwise distinct.
C8_TriState ==
    /\ str_sentinel # str_Allowed
    /\ str_sentinel # str_Not_allowed
    /\ str_Allowed # str_Not_allowed
    /\ (mode = "info" /\ vrm_version = "1.0" /\ license_info # <<>>) =>
          \A i \in 1..3 :
             LET out == license_info[1][TriStateFields[i]]
                 src == GetOr(meta, TriStateKeys[i], Absent)
             IN  /\ src = Absent => out = JStr(str_sentinel)
                 /\ src = JBool(TRUE) => out = JStr(str_Allowed)
                 /\ src = JBool(FALSE) => out = JStr(str_Not_allowed)

\* C8's case: one record with a field from a true source, one from a false
\* source and one from an absent source.
C8_Witness ==
    /\ mode = "info" /\ vrm_version = "1.0" /\ license_info # <<>>
    /\ GetOr(meta, "allowRedistribution", Absent) = JBool(FALSE)
    /\ license_info[1].redistribution = JStr(str_Not_allowed)
    /\ GetOr(meta, "allowExcessivelySexualUsage", Absent) = JBool(TRUE)
    /\ license_info[1].sexual_expression = JStr(str_Allowed)
    /\ ~HasKey(meta, "allowExcessivelyViolentUsage")
    /\ license_info[1].violence_expression = JStr(str_sentinel)

\* Trimmed and lower-cased, as the claim words the normalization.
Trimmed(s) == Lower(Strip(s))

\* Two scalars are equal after trimming, lower-casing and reading "true" and
\* "false" as the booleans.
ScalarEq(a, b) ==
    CASE a.t = "str" /\ b.t = "str" -> Trimmed(a.s) = Trimmed(b.s)
      [] a.t = "str" /\ b.t = "bool" ->
            Trimmed(a.s) = (IF b.b THEN str_true ELSE str_false)
      [] a.t = "bool" /\ b.t = "str" ->
            Trimmed(b.s) = (IF a.b THEN str_true ELSE str_false)
      [] OTHER -> a = b

\* C9: every comparison the apply pass makes is satisfied exactly when the
\* normalized file value equals the normalized mapping value - for a list, the
\* normalized value of at least one member - with the one normalization (trim,
\* lower-case, "true"/"false" to booleans) on both sides.
C9_NormalizedComparison ==
    \A e \in cmps :
        /\ e.ok <=> NormEq(e.f, e.m)
        /\ e.ok <=> IF e.m.t = "list"
                    THEN \E i \in 1..Len(e.m.l) : ScalarEq(e.f, e.m.l[i])
                    ELSE ScalarEq(e.f, e.m)

\* C9's case: a list condition satisfied by a file value that is none of the
\* members as written, and a scalar condition satisfied across str and bool.
C9_Witness ==
    /\ \E e \in cmps :
          /\ e.ok /\ e.m.t = "list"
          /\ \A i \in 1..Len(e.m.l) : e.f # e.m.l[i]
    /\ \E e \in cmps : e.ok /\ e.m.t = "bool" /\ e.f.t = "str"

\* C10: a conditional rule evaluates to a full match only if every one of its
\* condition keys that the file's metadata carries has a non-null value that
\* satisfies the condition; keys the metadata lacks are not looked at.
C10_PresentKeysAllSatisfied ==
    mode = "sort" =>
        \A n \in 1..Len(evals) :
            evals[n].all_match
                => PresentKeysSatisfied(meta, normal_mappings[evals[n].idx])

\* C10's case: a rule matched a file that lacks one of the rule's condition keys.
C10_Witness ==
    /\ mode = "sort"
    /\ \E n \in 1..Len(evals) :
          /\ evals[n].all_match
          /\ \E k \in TargetKeys(normal_mappings[evals[n].idx]) : ~HasKey(meta, k)

====
